---- MODULE Spec2Model ----
(***************************************************************************)
(* A model of leapp's RHSM library (libraries/rhsm.py): the retry          *)
(* decorator, the exception mapper, the skip gate, the public operations   *)
(* built on a mounting context, and the `yum repoinfo` parser.             *)
(*                                                                         *)
(* The specifications share the variables:                                 *)
(*   SpecRetry     the decorator _rhsm_retry around an arbitrary function  *)
(*                 (SpecRetryFair: the same, with a wrapper that runs),    *)
(*   SpecParse     the generator _get_repos over bounded listing texts,    *)
(*   SpecMapper    one with statement of _handle_rhsm_exceptions,          *)
(*   SpecRepoinfo  one call of get_available_repo_ids,                     *)
(*   Spec          the public operations called one after another by a     *)
(*                 host that may change the environment between calls.     *)
(***************************************************************************)
EXTENDS Integers, Sequences, FiniteSets, TLC

VARIABLES
    env,          \* os.environ: value of LEAPP_DEVEL_SKIP_RHSM, or "absent"
    gated,        \* what with_rhsm decided when the module was imported
    isolated,     \* context.is_isolated()
    dirs,         \* target directories that exist inside the context
    files,        \* regular files inside the context (full paths)
    op,           \* operation in progress, or "idle"
    pc,           \* position inside the operation in progress
    events,       \* what the current (or last) call did, in order
    result,       \* how the last call ended
    attempts,     \* wrapper: local variable attempts
    max_attempts, \* wrapper: decorator argument max_attempts
    sleep,        \* wrapper: decorator argument sleep (0 stands for None)
    idx,          \* loop index of switch_certificate / step of scan_rhsm_info
    certs,        \* rhsm_info.existing_product_certificates (argument)
    newcert,      \* cert_path (argument)
    info,         \* the RHSMInfo being filled by scan_rhsm_info
    lines,        \* parser: the listing as the lines it was built from
    text,         \* parser: the listing as the parser sees it (characters)
    pos,          \* parser: where the generator resumes scanning
    records,      \* parser: Repository tuples yielded so far
    pass,         \* parser: 1 for the first parse of the text, 2 for the re-parse
    first,        \* parser: how the first parse ended
    hint,         \* mapper: the hint its caller supplied ("" stands for None)
    given         \* what the command under study does: [out, stderr, ok]

sysVars   == <<env, gated, isolated, dirs, files>>
callVars  == <<op, pc, events, result>>
retryVars == <<attempts, max_attempts, sleep>>
loopVars  == <<idx, certs, newcert, info>>
parseVars == <<lines, text, pos, records, pass, first>>
inputVars == <<hint, given>>
vars      == <<sysVars, callVars, retryVars, loopVars, parseVars, inputVars>>

(***************************************************************************)
(* Bounds of the model.                                                    *)
(***************************************************************************)
MaxAttemptsArg == 5   \* SpecRetry: max_attempts ranges over -1 .. MaxAttemptsArg
MaxLines == 4         \* SpecParse: a listing has at most MaxLines lines
MaxCerts == 2         \* Spec: at most MaxCerts recorded certificate paths

(***************************************************************************)
(* Program constants.                                                      *)
(***************************************************************************)
_ATTEMPTS == 5
_RETRY_SLEEP == 5

(***************************************************************************)
(* Python values, events and outcomes.                                     *)
(***************************************************************************)
PyNone == [t |-> "None", v |-> <<>>]
PyList(s) == [t |-> "list", v |-> s]
PyStr(s) == [t |-> "str", v |-> s]
PyInfo(r) == [t |-> "RHSMInfo", v |-> r]

StopActorExecutionError == "StopActorExecutionError"
OSError == "OSError"
CalledProcessError == "CalledProcessError"
OtherError == "Exception"

\* details of an exception: a set of <<key, value>> pairs
HasKey(d, k) == \E p \in d : p[1] = k
ValueOf(d, k) == (CHOOSE p \in d : p[1] = k)[2]

NoResult == [kind |-> "none", exc |-> "", msg |-> "", details |-> {}, val |-> PyNone, n |-> 0]
Return(v) == [kind |-> "return", exc |-> "", msg |-> "", details |-> {}, val |-> v, n |-> 0]
Raise(exc, msg, details) ==
    [kind |-> "raise", exc |-> exc, msg |-> msg, details |-> details, val |-> PyNone, n |-> 0]

Event(e, a, n) == [e |-> e, a |-> a, n |-> n, d |-> <<>>]
EventD(e, a, d) == [e |-> e, a |-> a, n |-> 0, d |-> d]
Enter(name) == Event("enter", name, 0)
Call(cmd) == Event("call", cmd, 0)
Log(level) == Event("log", level, 0)
Count(evs, kind) == Cardinality({i \in DOMAIN evs : evs[i].e = kind})
Indices(evs, kind) == {i \in DOMAIN evs : evs[i].e = kind}

(***************************************************************************)
(* _rhsm_retry(max_attempts, sleep): the wrapper's loop.                   *)
(***************************************************************************)
\* line 39, mutated: an off-by-one in the comparison
RetriesExhaustedStrict(max, att) == max < att

\* line 39, mutated: == in place of <=
RetriesExhaustedEq(max, att) == max = att

\* line 39: if max_attempts <= attempts
RetriesExhausted(max, att) == max <= att

\* lines 39-49, mutated: the sleep is taken before the test of line 39
RetryHandlerEventsSleepFirst(max, slp, att) ==
    IF RetriesExhausted(max, att)
    THEN IF slp # 0
         THEN <<Event("sleep", "", slp), Log("warning")>>
         ELSE <<Log("warning")>>
    ELSE IF slp # 0
         THEN <<Log("info"), Event("sleep", "", slp)>>
         ELSE <<Log("info")>>

\* lines 38-51: the except clause, for attempt att of f; what is logged and slept
RetryHandlerEvents(max, slp, att) ==
    IF RetriesExhausted(max, att)
    THEN <<Log("warning")>>
    ELSE IF slp # 0
         THEN <<Log("info"), Event("sleep", "", slp)>>
         ELSE <<Log("info")>>

\* line 38, mutated: except Exception
CaughtAny(fres) == fres.kind = "raise"

\* line 38: except StopActorExecutionError
Caught(fres) == fres.kind = "raise" /\ fres.exc = StopActorExecutionError

\* lines 34-51: one iteration of `while True`. fev is what f did during this
\* invocation, fres how it ended.
RetryIteration(fev, fres) ==
    LET att == attempts + 1
        evs == events \o <<Event("invoke", "f", att)>> \o fev
    IN  /\ attempts' = att
        /\ UNCHANGED <<max_attempts, sleep>>
        /\ IF Caught(fres)
           THEN /\ events' = evs \o RetryHandlerEvents(max_attempts, sleep, att)
                /\ IF RetriesExhausted(max_attempts, att)
                   THEN result' = fres /\ pc' = "done"
                   ELSE UNCHANGED <<result, pc>>
           ELSE /\ events' = evs
                /\ result' = fres
                /\ pc' = "done"

(***************************************************************************)
(* SpecRetry: the decorator around a function f whose every invocation     *)
(* returns, raises StopActorExecutionError or raises something else.       *)
(***************************************************************************)
FOutcomes == {"return", "stop", "other"}

\* the outcome of invocation att of the decorated function
FResult(o, att) ==
    IF o = "return" THEN [Return(PyStr("value")) EXCEPT !.n = att]
    ELSE IF o = "stop" THEN [Raise(StopActorExecutionError, "failed", {}) EXCEPT !.n = att]
    ELSE [Raise(OtherError, "unexpected", {}) EXCEPT !.n = att]

IdleSys ==
    /\ env = "absent" /\ gated = FALSE /\ isolated = TRUE
    /\ dirs = {} /\ files = {}

IdleLoop == idx = 0 /\ certs = <<>> /\ newcert = <<>> /\ info = <<>>

IdleParse ==
    /\ lines = <<>> /\ text = <<>> /\ pos = 1 /\ records = <<>>
    /\ pass = 1 /\ first = NoResult

\* no command is under study
NoInput == [out |-> "ok", stderr |-> <<>>, ok |-> NoResult]
IdleInput == hint = "" /\ given = NoInput

InitRetry ==
    /\ IdleSys /\ IdleLoop /\ IdleParse /\ IdleInput
    /\ op = "wrapper" /\ pc = "loop"
    /\ events = <<>> /\ result = NoResult
    /\ attempts = 0
    /\ max_attempts \in -1 .. MaxAttemptsArg
    /\ sleep \in {0, _RETRY_SLEEP}

WrapperAttempt ==
    /\ op = "wrapper" /\ pc = "loop"
    /\ \E o \in FOutcomes : RetryIteration(<<>>, FResult(o, attempts + 1))
    /\ UNCHANGED <<op, sysVars, loopVars, parseVars, inputVars>>

NextRetry == WrapperAttempt

SpecRetry == InitRetry /\ [][NextRetry]_vars

\* the wrapper runs in a thread that is scheduled, and every invocation of f ends
SpecRetryFair == SpecRetry /\ WF_vars(NextRetry)

(***************************************************************************)
(* Text.  A string is a sequence of characters; the words of the listing   *)
(* that no pattern looks inside ("Repo-id", "a", "redhat.repo") are single *)
(* elements, " " and "NL" (newline) are the whitespace, ":" and "/" the    *)
(* two punctuation characters the patterns name.                           *)
(***************************************************************************)
IsWs(c) == c \in {" ", "NL"}
Min(S) == CHOOSE x \in S : \A y \in S : x <= y

\* first index >= from holding tok, 0 when there is none
FirstAt(s, from, tok) ==
    LET c == {i \in from .. Len(s) : s[i] = tok}
    IN  IF c = {} THEN 0 ELSE Min(c)

\* first index >= q that holds no whitespace (Len(s) + 1 at the end): greedy \s+
SkipWs(s, q) == Min({i \in q .. Len(s) + 1 : i = Len(s) + 1 \/ ~IsWs(s[i])})

\* re.MULTILINE: ^ matches at the start and after each newline
AtLineStart(s, p) == p = 1 \/ s[p - 1] = "NL"

\* re.MULTILINE: $ matches at the end and before each newline
AtLineEnd(s, p) == p = Len(s) + 1 \/ s[p] = "NL"

\* first index >= q where $ matches: lazy .*? followed by $
LineEndFrom(s, q) == Min({i \in q .. Len(s) + 1 : AtLineEnd(s, i)})

_DEFAULT_RHSM_REPOFILE == <<"/", "redhat.repo">>

(***************************************************************************)
(* _get_repos: re.findall(r"Repo-id.*?Repo-filename.*?\n", ..., DOTALL)    *)
(***************************************************************************)
\* the block ends at the first newline after the marker, mutated: the block
\* is cut right after the Repo-filename marker
BlockEndAtMarker(s, j) == j

\* the lazy .*?\n after Repo-filename: up to the first newline, 0 when none
BlockEnd(s, j) == FirstAt(s, j + 1, "NL")

\* the next non-overlapping match at or after from
NextBlock(s, from) ==
    LET i == FirstAt(s, from, "Repo-id")
        j == IF i = 0 THEN 0 ELSE FirstAt(s, i + 1, "Repo-filename")
        k == IF j = 0 THEN 0 ELSE BlockEnd(s, j)
    IN  [found |-> k # 0, lo |-> i, hi |-> k]

(***************************************************************************)
(* _get_repo_param: re.search(pattern, repo_params_raw, MULTILINE|DOTALL)  *)
(***************************************************************************)
NoMatch == [ok |-> FALSE, val |-> <<>>]
Match(v) == [ok |-> TRUE, val |-> v]

\* r'^Repo-id\s+:\s+([^/]+?)(/.*?)?$' tried at p.  \s+ is greedy and gives
\* back one whitespace to the group when what follows it is "/" or the end.
RepoIdAt(b, p) ==
    IF ~(AtLineStart(b, p) /\ b[p] = "Repo-id" /\ p + 1 <= Len(b) /\ IsWs(b[p + 1]))
    THEN NoMatch
    ELSE LET c == SkipWs(b, p + 1)
         IN  IF ~(c <= Len(b) /\ b[c] = ":" /\ c + 1 <= Len(b) /\ IsWs(b[c + 1]))
             THEN NoMatch
             ELSE LET d == SkipWs(b, c + 1)
                      g == IF d <= Len(b) /\ b[d] # "/" THEN d
                           ELSE IF d - 1 >= c + 2 THEN d - 1 ELSE 0
                  IN  IF g = 0 THEN NoMatch
                      ELSE LET e == Min({i \in g + 1 .. Len(b) + 1 :
                                           AtLineEnd(b, i) \/ b[i] = "/"})
                           IN  Match(SubSeq(b, g, e - 1))

\* r'^Repo-filename:\s+(.*?)$' tried at p
RepoFilenameAt(b, p) ==
    IF ~(AtLineStart(b, p) /\ b[p] = "Repo-filename" /\ p + 2 <= Len(b)
         /\ b[p + 1] = ":" /\ IsWs(b[p + 2]))
    THEN NoMatch
    ELSE LET d == SkipWs(b, p + 2)
         IN  Match(SubSeq(b, d, LineEndFrom(b, d) - 1))

PatternAt(pattern, b, p) ==
    IF pattern = "Repo-id" THEN RepoIdAt(b, p) ELSE RepoFilenameAt(b, p)

\* lines 202-207: the leftmost match's group 1, or ValueError(param, raw)
_get_repo_param(pattern, repo_params_raw, param) ==
    LET hits == {p \in 1 .. Len(repo_params_raw) : PatternAt(pattern, repo_params_raw, p).ok}
    IN  IF hits = {}
        THEN [ok |-> FALSE, val |-> <<>>, param |-> param]
        ELSE [ok |-> TRUE, val |-> PatternAt(pattern, repo_params_raw, Min(hits)).val,
              param |-> param]

ParseFailure(param, repo_params_raw) ==
    Raise(StopActorExecutionError, "Failed to parse the yum repoinfo output",
          {<<"details", <<param, repo_params_raw>>>>})

\* lines 188-199
_parse_repo_params(repo_params_raw) ==
    LET repoid == _get_repo_param("Repo-id", repo_params_raw, "Repo-id")
        repofile == _get_repo_param("Repo-filename", repo_params_raw, "Repo-filename")
    IN  IF ~repoid.ok THEN ParseFailure(repoid.param, repo_params_raw)
        ELSE IF ~repofile.ok THEN ParseFailure(repofile.param, repo_params_raw)
        ELSE Return([t |-> "Repository", v |-> [repoid |-> repoid.val, file |-> repofile.val]])

\* list(_get_repos(repos_stdout_raw)), line 134: the generator run to its end
RECURSIVE GetReposFrom(_, _, _)
GetReposFrom(s, from, acc) ==
    LET blk == NextBlock(s, from)
    IN  IF ~blk.found THEN Return(PyList(acc))
        ELSE LET r == _parse_repo_params(SubSeq(s, blk.lo, blk.hi))
             IN  IF r.kind = "raise" THEN r
                 ELSE GetReposFrom(s, blk.hi + 1, Append(acc, r.val.v))

ListRepos(repos_stdout_raw) == GetReposFrom(repos_stdout_raw, 1, <<>>)

(***************************************************************************)
(* SpecParse: the generator _get_repos, one next() per step, over every    *)
(* listing of at most MaxLines lines drawn from ListingLines; each text is *)
(* parsed twice.                                                           *)
(***************************************************************************)
Line(k, toks, val) == [k |-> k, toks |-> toks, val |-> val]

ListingLines ==
    { Line("id", <<"Repo-id", " ", ":", " ", "a", "NL">>, <<"a">>),
      Line("id", <<"Repo-id", " ", " ", ":", " ", "b", "/", "x86_64", "NL">>, <<"b">>),
      Line("file", <<"Repo-filename", ":", " ", "/", "redhat.repo", "NL">>, <<"/", "redhat.repo">>),
      Line("file", <<"Repo-filename", ":", " ", "/", "other.repo", "NL">>, <<"/", "other.repo">>),
      Line("other", <<"Repo-baseurl", " ", ":", " ", "u", "/", "v", "NL">>, <<>>),
      Line("badid", <<"Repo-id", ":", " ", "c", "NL">>, <<"c">>),
      Line("badfile", <<"Repo-filename", " ", ":", " ", "/", "redhat.repo", "NL">>, <<>>),
      Line("cutfile", <<"Repo-filename", ":", " ", "/", "redhat.repo">>, <<"/", "redhat.repo">>) }

RECURSIVE Flatten(_)
Flatten(ls) == IF ls = <<>> THEN <<>> ELSE Head(ls).toks \o Flatten(Tail(ls))

Listings == UNION {[1 .. n -> ListingLines] : n \in 0 .. MaxLines}

InitParse ==
    /\ IdleSys /\ IdleLoop /\ IdleInput
    /\ attempts = 0 /\ max_attempts = 0 /\ sleep = 0
    /\ op = "_get_repos" /\ pc = "gen"
    /\ events = <<>> /\ result = NoResult
    /\ lines \in Listings
    /\ text = Flatten(lines)
    /\ pos = 1 /\ records = <<>> /\ pass = 1 /\ first = NoResult

\* lines 183-185: one next() of the generator
GeneratorNext ==
    /\ op = "_get_repos" /\ pc = "gen"
    /\ LET blk == NextBlock(text, pos)
       IN  IF ~blk.found
           THEN /\ result' = Return(PyList(records))
                /\ pc' = "done"
                /\ UNCHANGED <<pos, records>>
           ELSE LET r == _parse_repo_params(SubSeq(text, blk.lo, blk.hi))
                IN  IF r.kind = "raise"
                    THEN /\ result' = r
                         /\ pc' = "done"
                         /\ UNCHANGED <<pos, records>>
                    ELSE /\ records' = Append(records, r.val.v)
                         /\ pos' = blk.hi + 1
                         /\ UNCHANGED <<result, pc>>
    /\ UNCHANGED <<op, events, lines, text, pass, first, sysVars, retryVars, loopVars, inputVars>>

\* _get_repos called again on the same text
Reparse ==
    /\ op = "_get_repos" /\ pc = "done" /\ pass = 1
    /\ pass' = 2 /\ first' = result
    /\ pos' = 1 /\ records' = <<>> /\ result' = NoResult /\ pc' = "gen"
    /\ UNCHANGED <<op, events, lines, text, sysVars, retryVars, loopVars, inputVars>>

NextParse == GeneratorNext \/ Reparse

SpecParse == InitParse /\ [][NextParse]_vars

(***************************************************************************)
(* The context (mounting.IsolatedActions) and the environment.             *)
(***************************************************************************)
EnvValues == {"absent", "0", "1"}
CallOutcomes == {"ok", OSError, CalledProcessError}
TargetDirs == <<"/etc/pki/product", "/etc/pki/product-default">>

\* os.getenv(name, '0')
GetEnv(e, default) == IF e = "absent" THEN default ELSE e

\* lines 82-84
skip_rhsm == GetEnv(env, "0") = "1"

\* lines 87-94: with_rhsm ran when the module was imported and bound the name
\* either to _no_op or to f; r is what f does, as [ev, res]
NoOp == [ev |-> <<>>, res |-> Return(PyNone)]
with_rhsm(r) == IF gated THEN NoOp ELSE r

\* a body that takes several steps: entered, not yet ended
Entered(name) == [ev |-> <<Enter(name)>>, res |-> NoResult]

DefaultHint == "Please ensure you have a valid RHEL subscription and your network is up."
InstallHint == "Please ensure subscription-manager is installed and executable."

\* lines 71-79, mutated: the details of a failed command lose the hint
_handle_rhsm_exceptions_nohint(h, out, stderr, ok) ==
    IF out = OSError
    THEN [ev |-> <<Log("error")>>,
          res |-> Raise(StopActorExecutionError,
                        "Unable to execute subscription-manager executable",
                        {<<"hint", InstallHint>>})]
    ELSE IF out = CalledProcessError
    THEN [ev |-> <<>>,
          res |-> Raise(StopActorExecutionError,
                        "A subscription-manager command failed to execute",
                        {<<"details", "CalledProcessError">>, <<"stderr", stderr>>})]
    ELSE [ev |-> <<>>, res |-> ok]

\* line 76, mutated: the hint of the caller is ignored
_handle_rhsm_exceptions_defaulthint(h, out, stderr, ok) ==
    IF out = OSError
    THEN [ev |-> <<Log("error")>>,
          res |-> Raise(StopActorExecutionError,
                        "Unable to execute subscription-manager executable",
                        {<<"hint", InstallHint>>})]
    ELSE IF out = CalledProcessError
    THEN [ev |-> <<>>,
          res |-> Raise(StopActorExecutionError,
                        "A subscription-manager command failed to execute",
                        {<<"details", "CalledProcessError">>, <<"stderr", stderr>>,
                         <<"hint", DefaultHint>>})]
    ELSE [ev |-> <<>>, res |-> ok]

\* line 64, mutated: the launch failure is not logged
_handle_rhsm_exceptions_silent(h, out, stderr, ok) ==
    IF out = OSError
    THEN [ev |-> <<>>,
          res |-> Raise(StopActorExecutionError,
                        "Unable to execute subscription-manager executable",
                        {<<"hint", InstallHint>>})]
    ELSE IF out = CalledProcessError
    THEN [ev |-> <<>>,
          res |-> Raise(StopActorExecutionError,
                        "A subscription-manager command failed to execute",
                        {<<"details", "CalledProcessError">>, <<"stderr", stderr>>,
                         <<"hint", IF h # "" THEN h ELSE DefaultHint>>})]
    ELSE [ev |-> <<>>, res |-> ok]

\* lines 56-79: _handle_rhsm_exceptions(hint=h) around a body whose
\* context.call ended as out, stderr being what the command wrote (e.stderr);
\* ok is how the body ends when the call raises nothing
_handle_rhsm_exceptions(h, out, stderr, ok) ==
    IF out = OSError
    THEN [ev |-> <<Log("error")>>,
          res |-> Raise(StopActorExecutionError,
                        "Unable to execute subscription-manager executable",
                        {<<"hint", InstallHint>>})]
    ELSE IF out = CalledProcessError
    THEN [ev |-> <<>>,
          res |-> Raise(StopActorExecutionError,
                        "A subscription-manager command failed to execute",
                        {<<"details", "CalledProcessError">>, <<"stderr", stderr>>,
                         <<"hint", IF h # "" THEN h ELSE DefaultHint>>})]
    ELSE [ev |-> <<>>, res |-> ok]

\* a guarded context.call, mutated: a call that failed is issued again
GuardedCallRepeated(name, cmd, out, ok) ==
    LET m == _handle_rhsm_exceptions("", out, "stderr", ok)
    IN  [ev |-> <<Enter(name), Call(cmd)>> \o (IF out = "ok" THEN <<>> ELSE <<Call(cmd)>>) \o m.ev,
         res |-> m.res]

\* a body made of one guarded context.call
GuardedCall(name, cmd, out, ok) ==
    LET m == _handle_rhsm_exceptions("", out, "stderr", ok)
    IN  [ev |-> <<Enter(name), Call(cmd)>> \o m.ev, res |-> m.res]

(***************************************************************************)
(* Output of subscription-manager: lines "<key>: <value>";                 *)
(* re.findall(r'<key>:\s*([^\s]+)', stdout) gives the values of a key.     *)
(***************************************************************************)
KV(k, v) == [key |-> k, val |-> v]

RECURSIVE FindAll(_, _)
FindAll(key, out) ==
    IF out = <<>> THEN <<>>
    ELSE IF Head(out).key = key THEN <<Head(out).val>> \o FindAll(key, Tail(out))
    ELSE FindAll(key, Tail(out))

ConsumedOutputs ==
    { <<KV("No consumed subscription pools", "")>>,
      <<KV("Subscription Name", "RHEL"), KV("SKU", "RH00001"), KV("SKU", "RH00002")>> }
EnabledOutputs ==
    { <<>>, <<KV("Repo ID", "rhel-8-baseos"), KV("Repo Name", "BaseOS"), KV("Repo ID", "rhel-8-appstream")>> }
ReleaseOutputs ==
    { <<KV("Release not set", "")>>, <<KV("Release", "8.2"), KV("Release", "8.4")>> }

\* lines 97-109
get_attached_skus(out, stdout) ==
    with_rhsm(GuardedCall("get_attached_skus", "subscription-manager list --consumed", out,
                          Return(PyList(FindAll("SKU", stdout)))))

\* lines 210-222
get_enabled_repo_ids(out, stdout) ==
    with_rhsm(GuardedCall("get_enabled_repo_ids", "subscription-manager repos --list-enabled", out,
                          Return(PyList(FindAll("Repo ID", stdout)))))

\* line 261, mutated: the command unsets the release
get_release_unset(out, stdout) ==
    LET found == FindAll("Release", stdout)
    IN  with_rhsm(GuardedCall("get_release", "subscription-manager release --unset", out,
                              Return(PyStr(IF found # <<>> THEN found[1] ELSE ""))))

\* lines 253-266
get_release(out, stdout) ==
    LET found == FindAll("Release", stdout)
    IN  with_rhsm(GuardedCall("get_release", "subscription-manager release", out,
                              Return(PyStr(IF found # <<>> THEN found[1] ELSE ""))))

(***************************************************************************)
(* yum repoinfo: stderr as lines, a line naming a duplicate or not.        *)
(***************************************************************************)
Dup(id) == [k |-> "dup", id |-> id]
Noise == [k |-> "noise", id |-> ""]

\* re.findall(r'Repository ([^\s]+) is listed more than once', stderr)
RECURSIVE FindDuplicates(_)
FindDuplicates(err) ==
    IF err = <<>> THEN <<>>
    ELSE IF Head(err).k = "dup" THEN <<Head(err).id>> \o FindDuplicates(Tail(err))
    ELSE FindDuplicates(Tail(err))

\* lines 145-173
_inhibit_on_duplicate_repos(repos_raw_stderr) ==
    LET duplicates == FindDuplicates(repos_raw_stderr)
    IN  IF duplicates = <<>> THEN <<>>
        ELSE <<Log("warning"), EventD("report", "medium inhibitor", duplicates)>>

RECURSIVE RepoIdsFrom(_, _)
\* line 135: [repo.repoid for repo in available_repos if repo.file == file]
RepoIdsFrom(repos, file) ==
    IF repos = <<>> THEN <<>>
    ELSE IF Head(repos).file = file THEN <<Head(repos).repoid>> \o RepoIdsFrom(Tail(repos), file)
    ELSE RepoIdsFrom(Tail(repos), file)

\* lines 133-134, mutated: the listing is parsed before the duplicates are looked for
get_available_repo_ids_parse_first(releasever, out, stdout, stderr) ==
    LET cmd == IF releasever # "" THEN "yum repoinfo --releasever" ELSE "yum repoinfo"
        pre == <<Enter("get_available_repo_ids"), Call(cmd)>>
    IN  IF out = OSError
        THEN [ev |-> pre, res |-> Raise(OSError, "No such file or directory", {})]
        ELSE IF out = CalledProcessError
        THEN [ev |-> pre,
              res |-> Raise(StopActorExecutionError,
                            "Unable to get list of available yum repositories.",
                            {<<"details", "CalledProcessError">>, <<"stderr", "stderr">>})]
        ELSE LET dup == _inhibit_on_duplicate_repos(stderr)
                 parsed == ListRepos(stdout)
             IN  IF parsed.kind = "raise"
                 THEN [ev |-> pre, res |-> parsed]
                 ELSE [ev |-> pre \o dup \o <<Log("info")>>,
                       res |-> Return(PyList(RepoIdsFrom(parsed.val.v, _DEFAULT_RHSM_REPOFILE)))]

\* lines 112-142; not decorated with with_rhsm
get_available_repo_ids(releasever, out, stdout, stderr) ==
    LET cmd == IF releasever # "" THEN "yum repoinfo --releasever" ELSE "yum repoinfo"
        pre == <<Enter("get_available_repo_ids"), Call(cmd)>>
    IN  IF out = OSError
        THEN [ev |-> pre, res |-> Raise(OSError, "No such file or directory", {})]
        ELSE IF out = CalledProcessError
        THEN [ev |-> pre,
              res |-> Raise(StopActorExecutionError,
                            "Unable to get list of available yum repositories.",
                            {<<"details", "CalledProcessError">>, <<"stderr", "stderr">>})]
        ELSE LET dup == _inhibit_on_duplicate_repos(stderr)
                 parsed == ListRepos(stdout)
             IN  IF parsed.kind = "raise"
                 THEN [ev |-> pre \o dup, res |-> parsed]
                 ELSE [ev |-> pre \o dup \o <<Log("info")>>,
                       res |-> Return(PyList(RepoIdsFrom(parsed.val.v, _DEFAULT_RHSM_REPOFILE)))]

SampleListings ==
    { <<>>,
      <<Line("id", <<"Repo-id", " ", ":", " ", "a", "NL">>, <<"a">>),
        Line("other", <<"Repo-baseurl", " ", ":", " ", "u", "/", "v", "NL">>, <<>>),
        Line("file", <<"Repo-filename", ":", " ", "/", "redhat.repo", "NL">>, <<"/", "redhat.repo">>)>>,
      <<Line("id", <<"Repo-id", " ", " ", ":", " ", "b", "/", "x86_64", "NL">>, <<"b">>),
        Line("file", <<"Repo-filename", ":", " ", "/", "other.repo", "NL">>, <<"/", "other.repo">>)>>,
      <<Line("badid", <<"Repo-id", ":", " ", "c", "NL">>, <<"c">>),
        Line("file", <<"Repo-filename", ":", " ", "/", "redhat.repo", "NL">>, <<"/", "redhat.repo">>)>> }

SampleStderr ==
    { <<>>, <<Noise>>, <<Dup("r1"), Noise, Dup("r2"), Dup("r1")>> }

(***************************************************************************)
(* The remaining operations.                                               *)
(***************************************************************************)
\* lines 316-319, mutated: the isolation test is dropped
set_container_mode_unchecked(out) ==
    LET pre == <<Enter("set_container_mode")>>
        ln == Call("ln -s /etc/rhsm /etc/rhsm-host")
    IN  with_rhsm(
          IF out = CalledProcessError
          THEN [ev |-> pre \o <<ln>>,
                res |-> Raise(StopActorExecutionError,
                              "Cannot set the container mode for the subscription-manager.", {})]
          ELSE IF out = OSError
          THEN [ev |-> pre \o <<ln>>, res |-> Raise(OSError, "No such file or directory", {})]
          ELSE [ev |-> pre \o <<ln>>, res |-> Return(PyNone)])

\* lines 303-324
set_container_mode(out) ==
    LET pre == <<Enter("set_container_mode")>>
        ln == Call("ln -s /etc/rhsm /etc/rhsm-host")
    IN  with_rhsm(
          IF ~isolated
          THEN [ev |-> pre \o <<Log("error")>>, res |-> Return(PyNone)]
          ELSE IF out = CalledProcessError
          THEN [ev |-> pre \o <<ln>>,
                res |-> Raise(StopActorExecutionError,
                              "Cannot set the container mode for the subscription-manager.", {})]
          ELSE IF out = OSError
          THEN [ev |-> pre \o <<ln>>, res |-> Raise(OSError, "No such file or directory", {})]
          ELSE [ev |-> pre \o <<ln>>, res |-> Return(PyNone)])

\* the orders in which os.listdir may give the members of S
Orders(S) ==
    {s \in [1 .. Cardinality(S) -> S] : \A i, j \in DOMAIN s : i # j => s[i] # s[j]}
FilesIn(d) == {f \in files : f[1] = d}

\* lines 282-300; l1 and l2 are what os.listdir gives for the two directories
get_existing_product_certificates(l1, l2) ==
    LET c1 == IF TargetDirs[1] \in dirs THEN l1 ELSE <<>>
        c2 == IF TargetDirs[2] \in dirs THEN l2 ELSE <<>>
    IN  with_rhsm([ev |-> <<Enter("get_existing_product_certificates")>>,
                   res |-> Return(PyList(c1 \o c2))])

\* the body of the three retried operations (lines 234-235, 249-250, 278-279)
RetriedOps == {"unset_release", "set_release", "refresh"}
RetriedCommand(name) ==
    IF name = "unset_release" THEN "subscription-manager release --unset"
    ELSE IF name = "set_release" THEN "subscription-manager release --set"
    ELSE "subscription-manager refresh"
RetriedBody(name, out) == GuardedCall(name, RetriedCommand(name), out, Return(PyNone))

\* line 345, mutated: the OSError of a removal is not caught
RemovalFailureEscapes(path) == [ev |-> <<>>, res |-> Raise(OSError, "No such file or directory", {})]

\* lines 345-346: except OSError: warn, and go on with the next certificate
RemovalFailure(path) == [ev |-> <<Log("warning")>>, res |-> NoResult]

CertPaths == {<<TargetDirs[i], "69.pem">> : i \in 1 .. 2}
CertLists == UNION {[1 .. n -> CertPaths] : n \in 0 .. MaxCerts}
NewCerts ==
    {<<"/etc/leapp/files/prod-certs", "479.pem">>, <<"/etc/leapp/files/prod-certs", "69.pem">>}
EmptyInfo ==
    [attached_skus |-> PyList(<<>>), available_repos |-> PyList(<<>>),
     enabled_repos |-> PyList(<<>>), release |-> PyStr(""),
     existing_product_certificates |-> PyList(<<>>)]

(***************************************************************************)
(* Spec: the host calls the public operations one after another on one     *)
(* context and may change the environment between two calls.               *)
(***************************************************************************)
Init ==
    /\ env \in EnvValues
    /\ gated = skip_rhsm
    /\ isolated \in BOOLEAN
    /\ dirs \in SUBSET {TargetDirs[1], TargetDirs[2]}
    /\ files \in SUBSET {p \in CertPaths : p[1] \in dirs}
    /\ op = "none" /\ pc = "done" /\ events = <<>> /\ result = NoResult
    /\ attempts = 0 /\ max_attempts = 0 /\ sleep = 0
    /\ IdleLoop /\ IdleParse /\ IdleInput

ResetRetry == attempts' = 0 /\ max_attempts' = 0 /\ sleep' = 0
ResetLoop == idx' = 0 /\ certs' = <<>> /\ newcert' = <<>> /\ info' = <<>>

\* a call that ran from its first statement to its last: r is [ev, res]
Finish(name, r) ==
    /\ op' = name /\ pc' = "done"
    /\ events' = r.ev /\ result' = r.res
    /\ ResetRetry /\ ResetLoop
    /\ UNCHANGED <<sysVars, parseVars, inputVars>>

\* the host is between two calls
AtHost == op = "none" /\ pc = "done"

\* os.environ changes between two calls
SetEnv ==
    /\ AtHost
    /\ \E v \in EnvValues \ {env} : env' = v
    /\ UNCHANGED <<gated, isolated, dirs, files, callVars, retryVars, loopVars, parseVars, inputVars>>

\* the caller has the result (or the exception) of the call and goes on
ReturnToHost ==
    /\ op # "none" /\ pc = "done"
    /\ op' = "none" /\ events' = <<>> /\ result' = NoResult
    /\ ResetRetry /\ ResetLoop
    /\ UNCHANGED <<pc, sysVars, parseVars, inputVars>>

CallGetAttachedSkus ==
    /\ AtHost
    /\ \E out \in CallOutcomes, stdout \in ConsumedOutputs :
          Finish("get_attached_skus", get_attached_skus(out, stdout))

CallGetEnabledRepoIds ==
    /\ AtHost
    /\ \E out \in CallOutcomes, stdout \in EnabledOutputs :
          Finish("get_enabled_repo_ids", get_enabled_repo_ids(out, stdout))

CallGetRelease ==
    /\ AtHost
    /\ \E out \in CallOutcomes, stdout \in ReleaseOutputs :
          Finish("get_release", get_release(out, stdout))

CallGetAvailableRepoIds ==
    /\ AtHost
    /\ \E releasever \in {"", "8.2"}, out \in CallOutcomes,
          ls \in SampleListings, stderr \in SampleStderr :
          Finish("get_available_repo_ids",
                 get_available_repo_ids(releasever, out, Flatten(ls), stderr))

CallSetContainerMode ==
    /\ AtHost
    /\ \E out \in CallOutcomes : Finish("set_container_mode", set_container_mode(out))

CallGetExistingProductCertificates ==
    /\ AtHost
    /\ \E l1 \in Orders(FilesIn(TargetDirs[1])), l2 \in Orders(FilesIn(TargetDirs[2])) :
          Finish("get_existing_product_certificates", get_existing_product_certificates(l1, l2))

\* unset_release, set_release, refresh: with_rhsm(_rhsm_retry(5, 5)(f))
CallRetried ==
    /\ AtHost
    /\ \E name \in RetriedOps :
          LET r == with_rhsm(Entered(name))
          IN  IF r.res.kind = "return"
              THEN Finish(name, r)
              ELSE /\ op' = name /\ pc' = "retry"
                   /\ events' = <<>> /\ result' = NoResult
                   /\ attempts' = 0 /\ max_attempts' = _ATTEMPTS /\ sleep' = _RETRY_SLEEP
                   /\ ResetLoop
                   /\ UNCHANGED <<sysVars, parseVars, inputVars>>

RetriedAttempt ==
    /\ op \in RetriedOps /\ pc = "retry"
    /\ \E out \in CallOutcomes :
          LET b == RetriedBody(op, out)
          IN  RetryIteration(b.ev, [b.res EXCEPT !.n = attempts + 1])
    /\ UNCHANGED <<op, sysVars, loopVars, parseVars, inputVars>>

\* lines 327-350: switch_certificate(context, rhsm_info, cert_path)
CallSwitchCertificate ==
    /\ AtHost
    /\ \E cs \in CertLists, nc \in NewCerts :
          LET r == with_rhsm(Entered("switch_certificate"))
          IN  IF r.res.kind = "return"
              THEN Finish("switch_certificate", r)
              ELSE /\ op' = "switch_certificate"
                   /\ pc' = IF cs = <<>> THEN "copy" ELSE "remove"
                   /\ events' = r.ev /\ result' = r.res
                   /\ idx' = 1 /\ certs' = cs /\ newcert' = nc /\ info' = <<>>
                   /\ ResetRetry
                   /\ UNCHANGED <<sysVars, parseVars, inputVars>>

\* lines 342-346: one iteration of the first loop
SwitchRemove ==
    /\ op = "switch_certificate" /\ pc = "remove"
    /\ LET existing == certs[idx]
           last == idx = Len(certs)
       IN  \/ /\ existing \in files          \* context.remove succeeds
              /\ files' = files \ {existing}
              /\ events' = Append(events, EventD("remove", "ok", existing))
              /\ pc' = IF last THEN "copy" ELSE "remove"
              /\ idx' = IF last THEN 1 ELSE idx + 1
              /\ UNCHANGED result
           \/ /\ LET h == RemovalFailure(existing)   \* context.remove raises OSError
                 IN  /\ events' = Append(events, EventD("remove", OSError, existing)) \o h.ev
                     /\ IF h.res.kind = "raise"
                        THEN result' = h.res /\ pc' = "done" /\ UNCHANGED idx
                        ELSE /\ pc' = IF last THEN "copy" ELSE "remove"
                             /\ idx' = IF last THEN 1 ELSE idx + 1
                             /\ UNCHANGED result
              /\ UNCHANGED files
    /\ UNCHANGED <<op, env, gated, isolated, dirs, certs, newcert, info, retryVars, parseVars, inputVars>>

\* line 349, mutated: the directory test is dropped
CopyWantedAlways(path) == TRUE

\* line 349: if os.path.isdir(context.full_path(path))
CopyWanted(path) == path \in dirs

\* lines 348-350: one iteration of the second loop
SwitchCopy ==
    /\ op = "switch_certificate" /\ pc = "copy"
    /\ LET path == TargetDirs[idx]
           dst == <<path, newcert[2]>>
           last == idx = Len(TargetDirs)
       IN  \/ /\ ~CopyWanted(path)
              /\ UNCHANGED <<files, events>>
              /\ pc' = IF last THEN "done" ELSE "copy"
              /\ idx' = IF last THEN idx ELSE idx + 1
              /\ result' = IF last THEN Return(PyNone) ELSE result
           \/ /\ CopyWanted(path)             \* context.copy_to succeeds
              /\ files' = files \cup {dst}
              /\ events' = Append(events, EventD("copy", "ok", dst))
              /\ pc' = IF last THEN "done" ELSE "copy"
              /\ idx' = IF last THEN idx ELSE idx + 1
              /\ result' = IF last THEN Return(PyNone) ELSE result
           \/ /\ CopyWanted(path)             \* context.copy_to raises
              /\ events' = Append(events, EventD("copy", OSError, dst))
              /\ result' = Raise(OSError, "copy failed", {})
              /\ pc' = "done"
              /\ UNCHANGED <<files, idx>>
    /\ UNCHANGED <<op, env, gated, isolated, dirs, certs, newcert, info, retryVars, parseVars, inputVars>>

\* lines 353-365: scan_rhsm_info(context) up to info = RHSMInfo()
CallScanRhsmInfo ==
    /\ AtHost
    /\ LET r == with_rhsm(Entered("scan_rhsm_info"))
       IN  IF r.res.kind = "return"
           THEN Finish("scan_rhsm_info", r)
           ELSE /\ op' = "scan_rhsm_info" /\ pc' = "scan"
                /\ events' = r.ev /\ result' = r.res
                /\ idx' = 1 /\ certs' = <<>> /\ newcert' = <<>> /\ info' = EmptyInfo
                /\ ResetRetry
                /\ UNCHANGED <<sysVars, parseVars, inputVars>>

\* lines 367-368, mutated: two queries change places
ScanStepsSwapped ==
    <<"attached_skus", "enabled_repos", "available_repos", "release",
      "existing_product_certificates">>

\* the order of lines 366-370
ScanSteps ==
    <<"attached_skus", "available_repos", "enabled_repos", "release",
      "existing_product_certificates">>

\* one of lines 366-370: the sub-step ended as r; an exception leaves the
\* function, a value is stored in its field; line 371 follows the last one
ScanAdvance(r) ==
    /\ events' = events \o r.ev
    /\ IF r.res.kind = "raise"
       THEN /\ result' = r.res /\ pc' = "done"
            /\ UNCHANGED <<idx, info>>
       ELSE /\ info' = [info EXCEPT ![ScanSteps[idx]] = r.res.val]
            /\ IF idx = Len(ScanSteps)
               THEN /\ result' = Return(PyInfo(info')) /\ pc' = "done"
                    /\ UNCHANGED idx
               ELSE /\ idx' = idx + 1
                    /\ UNCHANGED <<result, pc>>
    /\ UNCHANGED <<op, certs, newcert, sysVars, retryVars, parseVars, inputVars>>

ScanAttachedSkus ==
    /\ op = "scan_rhsm_info" /\ pc = "scan" /\ ScanSteps[idx] = "attached_skus"
    /\ \E out \in CallOutcomes, stdout \in ConsumedOutputs :
          ScanAdvance(get_attached_skus(out, stdout))

ScanAvailableRepos ==
    /\ op = "scan_rhsm_info" /\ pc = "scan" /\ ScanSteps[idx] = "available_repos"
    /\ \E out \in CallOutcomes, ls \in SampleListings, stderr \in SampleStderr :
          ScanAdvance(get_available_repo_ids("", out, Flatten(ls), stderr))

ScanEnabledRepos ==
    /\ op = "scan_rhsm_info" /\ pc = "scan" /\ ScanSteps[idx] = "enabled_repos"
    /\ \E out \in CallOutcomes, stdout \in EnabledOutputs :
          ScanAdvance(get_enabled_repo_ids(out, stdout))

ScanRelease ==
    /\ op = "scan_rhsm_info" /\ pc = "scan" /\ ScanSteps[idx] = "release"
    /\ \E out \in CallOutcomes, stdout \in ReleaseOutputs :
          ScanAdvance(get_release(out, stdout))

ScanExistingCertificates ==
    /\ op = "scan_rhsm_info" /\ pc = "scan"
    /\ ScanSteps[idx] = "existing_product_certificates"
    /\ \E l1 \in Orders(FilesIn(TargetDirs[1])), l2 \in Orders(FilesIn(TargetDirs[2])) :
          ScanAdvance(get_existing_product_certificates(l1, l2))

Next ==
    \/ SetEnv
    \/ ReturnToHost
    \/ CallGetAttachedSkus
    \/ CallGetAvailableRepoIds
    \/ CallGetEnabledRepoIds
    \/ CallGetRelease
    \/ CallSetContainerMode
    \/ CallGetExistingProductCertificates
    \/ CallRetried
    \/ RetriedAttempt
    \/ CallSwitchCertificate
    \/ SwitchRemove
    \/ SwitchCopy
    \/ CallScanRhsmInfo
    \/ ScanAttachedSkus
    \/ ScanAvailableRepos
    \/ ScanEnabledRepos
    \/ ScanRelease
    \/ ScanExistingCertificates

Spec == Init /\ [][Next]_vars

(***************************************************************************)
(* SpecMapper: one `with _handle_rhsm_exceptions(hint):` statement, for     *)
(* every hint, every way the guarded context.call may end and every way    *)
(* the body may end after a call that raised nothing.                      *)
(***************************************************************************)
Hints == {"", "Check the release.", "Check the network."}
StderrTexts == {"", "Network error", "Not registered"}
BodyResults ==
    { Return(PyNone), Return(PyStr("8.2")), Return(PyList(<<"RH00001">>)),
      Raise(OtherError, "unexpected", {}) }

InitMapper ==
    /\ IdleSys /\ IdleLoop /\ IdleParse
    /\ attempts = 0 /\ max_attempts = 0 /\ sleep = 0
    /\ op = "_handle_rhsm_exceptions" /\ pc = "with"
    /\ events = <<>> /\ result = NoResult
    /\ hint \in Hints
    /\ given \in [out : CallOutcomes, stderr : StderrTexts, ok : BodyResults]

\* lines 56-79: the with statement is left
MapperExit ==
    /\ op = "_handle_rhsm_exceptions" /\ pc = "with"
    /\ LET m == _handle_rhsm_exceptions(hint, given.out, given.stderr, given.ok)
       IN  events' = m.ev /\ result' = m.res
    /\ pc' = "done"
    /\ UNCHANGED <<op, sysVars, retryVars, loopVars, parseVars, inputVars>>

NextMapper == MapperExit

SpecMapper == InitMapper /\ [][NextMapper]_vars

(***************************************************************************)
(* SpecRepoinfo: one call of get_available_repo_ids, for every way the     *)
(* listing command may end, sample listings on its stdout and every        *)
(* stderr of at most MaxErrLines lines.                                    *)
(***************************************************************************)
MaxErrLines == 3

ErrLines == {Dup("r1"), Dup("r2"), Noise}
StderrLines == UNION {[1 .. n -> ErrLines] : n \in 0 .. MaxErrLines}

InitRepoinfo ==
    /\ IdleSys /\ IdleLoop
    /\ attempts = 0 /\ max_attempts = 0 /\ sleep = 0
    /\ op = "get_available_repo_ids" /\ pc = "call"
    /\ events = <<>> /\ result = NoResult
    /\ lines \in SampleListings
    /\ text = Flatten(lines)
    /\ pos = 1 /\ records = <<>> /\ pass = 1 /\ first = NoResult
    /\ hint = ""
    /\ given \in [out : CallOutcomes, stderr : StderrLines, ok : {NoResult}]

\* lines 112-142, from the first statement to the last
RepoinfoCall ==
    /\ op = "get_available_repo_ids" /\ pc = "call"
    /\ \E releasever \in {"", "8.2"} :
          LET r == get_available_repo_ids(releasever, given.out, text, given.stderr)
          IN  events' = r.ev /\ result' = r.res
    /\ pc' = "done"
    /\ UNCHANGED <<op, sysVars, retryVars, loopVars, parseVars, inputVars>>

NextRepoinfo == RepoinfoCall

SpecRepoinfo == InitRepoinfo /\ [][NextRepoinfo]_vars

(***************************************************************************)
(* C1: with max_attempts = N >= 1, a call of the wrapper that ends by      *)
(* raising StopActorExecutionError has invoked f exactly N times, every    *)
(* invocation having raised it, and the error raised is the one of         *)
(* invocation N; a call that ends by returning has invoked f exactly j     *)
(* <= N times and returns the value of invocation j.                       *)
(***************************************************************************)
C1_RetryCounts ==
    (op = "wrapper" /\ pc = "done" /\ max_attempts >= 1) =>
        /\ (result.kind = "raise" /\ result.exc = StopActorExecutionError) =>
              /\ Count(events, "invoke") = max_attempts
              /\ attempts = max_attempts
              /\ result.n = max_attempts
        /\ result.kind = "return" =>
              /\ Count(events, "invoke") = result.n
              /\ attempts = result.n
              /\ result.n <= max_attempts
              /\ result.val = PyStr("value")

C1_Witness ==
    /\ op = "wrapper" /\ pc = "done" /\ max_attempts = 3
    /\ result.kind = "raise" /\ result.exc = StopActorExecutionError
    /\ Count(events, "invoke") = 3

(***************************************************************************)
(* What a listing says, read line by line without the patterns: a block is *)
(* a Repo-id line, then lines that are neither, then a Repo-filename line, *)
(* every line ending in a newline.                                         *)
(***************************************************************************)
RECURSIVE ReadBlocks(_, _, _)
ReadBlocks(ls, open, acc) ==
    IF ls = <<>> THEN [ok |-> open = <<>>, recs |-> acc]
    ELSE LET l == Head(ls)
         IN  IF l.k = "id"
             THEN IF open # <<>> THEN [ok |-> FALSE, recs |-> acc]
                  ELSE ReadBlocks(Tail(ls), <<l.val>>, acc)
             ELSE IF l.k = "file"
             THEN IF open = <<>> THEN [ok |-> FALSE, recs |-> acc]
                  ELSE ReadBlocks(Tail(ls), <<>>,
                                  Append(acc, [repoid |-> open[1], file |-> l.val]))
             ELSE IF l.k = "other" THEN ReadBlocks(Tail(ls), open, acc)
             ELSE [ok |-> FALSE, recs |-> acc]

WellFormedListing(ls) == ReadBlocks(ls, <<>>, <<>>).ok
ExpectedRepos(ls) == ReadBlocks(ls, <<>>, <<>>).recs
IsPrefix(a, b) == Len(a) <= Len(b) /\ SubSeq(b, 1, Len(a)) = a

(***************************************************************************)
(* C9: for a listing made of k well-formed blocks (and lines outside them  *)
(* that are neither Repo-id nor Repo-filename lines), _get_repos yields    *)
(* exactly k Repository tuples, the i-th with the repo id (without its     *)
(* /suffix) and the file of the i-th block; while the generator runs, what *)
(* it has yielded is a prefix of them; parsing the text again ends as the  *)
(* first parse did.                                                        *)
(***************************************************************************)
C9_ParseWellFormed ==
    op = "_get_repos" =>
        /\ WellFormedListing(lines) =>
              /\ IsPrefix(records, ExpectedRepos(lines))
              /\ pc = "done" => result = Return(PyList(ExpectedRepos(lines)))
        /\ (pass = 2 /\ pc = "done") => result = first

C9_Witness ==
    /\ op = "_get_repos" /\ pc = "done" /\ pass = 2
    /\ WellFormedListing(lines)
    /\ result.kind = "return" /\ Len(result.val.v) = 2
    /\ result.val.v[1].repoid = <<"b">> /\ result.val.v[2].repoid = <<"a">>
    /\ result.val.v[1].file # result.val.v[2].file

(***************************************************************************)
(* C10: whenever a block of the listing lacks its Repo-id line or its      *)
(* Repo-filename line (every line of the listing being itself a proper     *)
(* line), parsing ends by raising StopActorExecutionError whose details    *)
(* name the missing field and hold the block.                              *)
(***************************************************************************)
MissingField(ls) ==
    /\ \A i \in DOMAIN ls : ls[i].k \in {"id", "file", "other"}
    /\ ~WellFormedListing(ls)

C10_MalformedBlockRaises ==
    (op = "_get_repos" /\ pc = "done" /\ MissingField(lines)) =>
        /\ result.kind = "raise"
        /\ result.exc = StopActorExecutionError
        /\ HasKey(result.details, "details")
        /\ ValueOf(result.details, "details")[1] \in {"Repo-id", "Repo-filename"}

(***************************************************************************)
(* Reading the record of a call.                                           *)
(***************************************************************************)
GatedOps ==
    {"get_attached_skus", "get_enabled_repo_ids", "unset_release", "set_release",
     "get_release", "refresh", "get_existing_product_certificates",
     "set_container_mode", "switch_certificate", "scan_rhsm_info"}
PublicOps == GatedOps \cup {"get_available_repo_ids"}
IsEnter(e) == e.e = "enter"
IsRemove(e) == e.e = "remove"
IsCopy(e) == e.e = "copy"
Entered_(evs) == SelectSeq(evs, IsEnter)
Removals(evs) == SelectSeq(evs, IsRemove)
Copies(evs) == SelectSeq(evs, IsCopy)
NoCommand(evs) == Count(evs, "call") = 0 /\ Count(evs, "remove") = 0 /\ Count(evs, "copy") = 0
BodyRan == events # <<>> /\ events[1].e \in {"enter", "invoke"}
IsTerminal(r) == r.kind = "raise" /\ r.exc = StopActorExecutionError
\* the function that was running when the call ended
LastEntered == Entered_(events)[Len(Entered_(events))].a

(***************************************************************************)
(* C2: while LEAPP_DEVEL_SKIP_RHSM is '1', a call of a gated operation     *)
(* has ended at once, returning None, without any context.call, remove or  *)
(* copy_to and without raising.                                            *)
(***************************************************************************)
C2_SkipIsNoOp ==
    (op \in GatedOps /\ skip_rhsm) =>
        /\ pc = "done"
        /\ result = Return(PyNone)
        /\ NoCommand(events)

(***************************************************************************)
(* C3: each call of a gated operation follows the value the switch has at  *)
(* the time of the call: a finished call has skipped its body if and only  *)
(* if the switch was '1' during the call.                                  *)
(***************************************************************************)
C3_SkipResolvedPerCall ==
    (op \in GatedOps /\ pc = "done") => (skip_rhsm <=> ~BodyRan)

(***************************************************************************)
(* C4: a call of switch_certificate whose body runs attempts the removal   *)
(* of each of the k recorded paths, in their order, whether or not earlier *)
(* removals failed; every copy comes after all k removal attempts; at most *)
(* one copy is issued per target directory, and only into target           *)
(* directories that exist.                                                 *)
(***************************************************************************)
C4_RemovalsThenCopies ==
    (op = "switch_certificate" /\ BodyRan) =>
        LET rm == Removals(events)
            cp == Copies(events)
        IN  /\ IsPrefix([i \in DOMAIN rm |-> rm[i].d], certs)
            /\ pc = "remove" => (Len(rm) = idx - 1 /\ Len(rm) < Len(certs))
            /\ pc \in {"copy", "done"} => Len(rm) = Len(certs)
            /\ cp # <<>> => Len(rm) = Len(certs)
            /\ \A i \in Indices(events, "remove"), j \in Indices(events, "copy") : i < j
            /\ Len(cp) <= Len(TargetDirs)
            /\ \A i \in DOMAIN cp : cp[i].d[1] \in dirs /\ cp[i].d[2] = newcert[2]
            /\ \A i, j \in DOMAIN cp : i # j => cp[i].d # cp[j].d

C4_Witness ==
    /\ op = "switch_certificate" /\ pc = "done" /\ BodyRan
    /\ Len(certs) = 2
    /\ Len(Removals(events)) = 2 /\ Removals(events)[1].a = OSError
    /\ Len(Copies(events)) = 2

(***************************************************************************)
(* C5: a finished call of a public operation, whatever the outcomes of its *)
(* context.call invocations, has returned or has raised                    *)
(* StopActorExecutionError.                                                *)
(***************************************************************************)
C5_OnlyTerminalErrors ==
    (op \in PublicOps /\ pc = "done"
        /\ \A i \in Indices(events, "copy") : events[i].a = "ok") =>
        \/ result.kind = "return"
        \/ IsTerminal(result)

(***************************************************************************)
(* C6 as stated: every StopActorExecutionError raised carries a message    *)
(* and details holding a 'hint'.                                           *)
(***************************************************************************)
C6_AlwaysHint ==
    IsTerminal(result) =>
        /\ result.msg # ""
        /\ HasKey(result.details, "hint")

(***************************************************************************)
(* C6 amended: every StopActorExecutionError raised carries a message; the *)
(* ones raised by _handle_rhsm_exceptions (a subscription-manager command  *)
(* that failed or could not be launched) carry details holding a 'hint';   *)
(* the one of a failed yum repoinfo carries 'details' and 'stderr' only,   *)
(* the one of a parse failure 'details' only, the one of set_container_mode*)
(* no details.                                                             *)
(***************************************************************************)
MapperOps ==
    {"get_attached_skus", "get_enabled_repo_ids", "get_release",
     "unset_release", "set_release", "refresh"}
Keys(d) == {p[1] : p \in d}

C6_HintOnlyFromMapper ==
    (IsTerminal(result) /\ op \in PublicOps) =>
        /\ result.msg # ""
        /\ LastEntered \in MapperOps =>
              /\ HasKey(result.details, "hint")
              /\ ValueOf(result.details, "hint") \in {DefaultHint, InstallHint}
        /\ LastEntered = "get_available_repo_ids" =>
              Keys(result.details) \in {{"details", "stderr"}, {"details"}}
        /\ LastEntered = "set_container_mode" => result.details = {}
        /\ LastEntered \in MapperOps \cup {"get_available_repo_ids", "set_container_mode"}

C6_Witness ==
    /\ op = "get_release" /\ pc = "done" /\ IsTerminal(result)
    /\ HasKey(result.details, "stderr")
    /\ ValueOf(result.details, "hint") = DefaultHint

(***************************************************************************)
(* C7: a call of set_container_mode on a context that is not isolated      *)
(* returns None without raising and without any command, removal or copy,  *)
(* after logging one error when its body runs; the command                 *)
(* ln -s /etc/rhsm /etc/rhsm-host is issued only on an isolated context.   *)
(***************************************************************************)
C7_ContainerModeOnlyIsolated ==
    /\ (op = "set_container_mode" /\ ~isolated) =>
          /\ result = Return(PyNone)
          /\ NoCommand(events)
          /\ BodyRan => events = <<Enter("set_container_mode"), Log("error")>>
    /\ \A i \in Indices(events, "call") :
          events[i].a = "ln -s /etc/rhsm /etc/rhsm-host" => isolated

C7_Witness ==
    /\ op = "set_container_mode" /\ pc = "done" /\ ~isolated /\ BodyRan
    /\ result = Return(PyNone)
    /\ Count(events, "log") = 1

(***************************************************************************)
(* C8: scan_rhsm_info enters its sub-steps in the order get_attached_skus, *)
(* get_available_repo_ids, get_enabled_repo_ids, get_release,              *)
(* get_existing_product_certificates; when sub-step i raises               *)
(* StopActorExecutionError the call ends with that very error, no later    *)
(* sub-step having been entered and no RHSMInfo returned; an RHSMInfo is   *)
(* returned only after all five sub-steps returned.                        *)
(***************************************************************************)
ScanOrder ==
    <<"scan_rhsm_info", "get_attached_skus", "get_available_repo_ids",
      "get_enabled_repo_ids", "get_release", "get_existing_product_certificates">>

\* the StopActorExecutionErrors sub-step i can raise by itself
SubStepErrors(i) ==
    IF i = 1 THEN {get_attached_skus(o, <<>>).res : o \in {OSError, CalledProcessError}}
    ELSE IF i = 2
    THEN {get_available_repo_ids("", CalledProcessError, <<>>, <<>>).res}
         \cup {get_available_repo_ids("", "ok", Flatten(l), <<>>).res : l \in SampleListings}
    ELSE IF i = 3 THEN {get_enabled_repo_ids(o, <<>>).res : o \in {OSError, CalledProcessError}}
    ELSE IF i = 4 THEN {get_release(o, <<>>).res : o \in {OSError, CalledProcessError}}
    ELSE {}

C8_ScanAllOrNothing ==
    (op = "scan_rhsm_info" /\ BodyRan) =>
        LET en == Entered_(events)
            names == [i \in DOMAIN en |-> en[i].a]
        IN  /\ IsPrefix(names, ScanOrder)
            /\ pc = "scan" => (result = NoResult /\ Len(names) = idx)
            /\ (pc = "done" /\ IsTerminal(result)) =>
                  /\ Len(names) = idx + 1
                  /\ result \in SubStepErrors(idx)
                  /\ result.val = PyNone
            /\ (pc = "done" /\ result.kind = "return") =>
                  /\ result.val.t = "RHSMInfo"
                  /\ names = ScanOrder
            /\ result.val.t = "RHSMInfo" => (pc = "done" /\ names = ScanOrder)

C8_Witness ==
    /\ op = "scan_rhsm_info" /\ pc = "done" /\ IsTerminal(result)
    /\ idx = 3
    /\ Len(Entered_(events)) = 4

(***************************************************************************)
(* Reading a stderr and a trace: the ids the stderr lines name, the ids    *)
(* without their repetitions, and the reports a call made.                 *)
(***************************************************************************)
IsDupLine(l) == l.k = "dup"
IsReport(e) == e.e = "report"
IsCall(e) == e.e = "call"
NamedIds(err) ==
    LET ds == SelectSeq(err, IsDupLine) IN [i \in 1 .. Len(ds) |-> ds[i].id]

RECURSIVE FirstOccurrences(_)
FirstOccurrences(ids) ==
    IF ids = <<>> THEN <<>>
    ELSE LET front == FirstOccurrences(SubSeq(ids, 1, Len(ids) - 1))
             last == ids[Len(ids)]
         IN  IF \E i \in DOMAIN front : front[i] = last THEN front ELSE Append(front, last)

RepoinfoDone == op = "get_available_repo_ids" /\ pc = "done"

(***************************************************************************)
(* C11: after a listing command that succeeded, when its stderr names      *)
(* repositories as listed more than once there is exactly one report, of   *)
(* medium severity and inhibiting, and it lists each named id once, in the *)
(* order of first occurrence; when the stderr names none there is no       *)
(* report.                                                                 *)
(***************************************************************************)
C11_DistinctDuplicatesOnce ==
    (RepoinfoDone /\ given.out = "ok") =>
        LET named == NamedIds(given.stderr)
            reports == SelectSeq(events, IsReport)
        IN  IF named = <<>>
            THEN reports = <<>>
            ELSE /\ Len(reports) = 1
                 /\ reports[1].a = "medium inhibitor"
                 /\ reports[1].d = FirstOccurrences(named)

(***************************************************************************)
(* C13: leaving the with statement of the mapper, a body that raised       *)
(* neither OSError nor CalledProcessError ends as it ended, nothing        *)
(* added; an OSError becomes a StopActorExecutionError with the 'Unable to *)
(* execute' message and the install hint; a CalledProcessError becomes a   *)
(* StopActorExecutionError whose details hold the stderr of the command    *)
(* and, as hint, the hint of the caller when there is one and the default  *)
(* hint otherwise.                                                         *)
(***************************************************************************)
MapperDone == op = "_handle_rhsm_exceptions" /\ pc = "done"

C13_MapperContract ==
    MapperDone =>
        /\ given.out = "ok" => result = given.ok /\ events = <<>>
        /\ given.out = OSError =>
              /\ result.kind = "raise" /\ result.exc = StopActorExecutionError
              /\ result.msg = "Unable to execute subscription-manager executable"
              /\ Keys(result.details) = {"hint"}
              /\ ValueOf(result.details, "hint") = InstallHint
        /\ given.out = CalledProcessError =>
              /\ result.kind = "raise" /\ result.exc = StopActorExecutionError
              /\ result.msg = "A subscription-manager command failed to execute"
              /\ Keys(result.details) = {"details", "stderr", "hint"}
              /\ ValueOf(result.details, "stderr") = given.stderr
              /\ ValueOf(result.details, "hint") = (IF hint = "" THEN DefaultHint ELSE hint)

\* a command that failed under a mapper whose caller gave a hint
C13_Witness ==
    /\ MapperDone /\ given.out = CalledProcessError
    /\ hint = "Check the release." /\ given.stderr = "Network error"
    /\ result.kind = "raise" /\ ValueOf(result.details, "hint") = "Check the release."

(***************************************************************************)
(* C14 as stated: whenever the mapper raises, for a launch failure or for  *)
(* a non-zero exit, an error was logged before.                            *)
(***************************************************************************)
C14_LogsBeforeEveryRaise ==
    (MapperDone /\ given.out \in {OSError, CalledProcessError}) =>
        /\ result.kind = "raise"
        /\ \E i \in DOMAIN events : events[i] = Log("error")

(***************************************************************************)
(* C14: the mapper logs one error before it raises for a launch failure    *)
(* (OSError), and logs nothing when it raises for a non-zero exit          *)
(* (CalledProcessError) or when the body raised neither.                   *)
(***************************************************************************)
C14_LogsLaunchFailureOnly ==
    MapperDone =>
        /\ given.out = OSError => result.kind = "raise" /\ events = <<Log("error")>>
        /\ given.out = CalledProcessError => result.kind = "raise" /\ events = <<>>
        /\ given.out = "ok" => events = <<>>

C14_Witness ==
    /\ MapperDone /\ given.out = OSError
    /\ result.kind = "raise" /\ result.exc = StopActorExecutionError
    /\ events = <<Log("error")>>

(***************************************************************************)
(* C15: after a listing command that succeeded with a stderr naming at     *)
(* least one duplicate, the call made exactly one report, whether it then  *)
(* returned the ids or raised the parser's error; the call ends as the     *)
(* parser ends, never with an error of the duplicate detection.            *)
(***************************************************************************)
C15_ReportWhateverParsing ==
    (RepoinfoDone /\ given.out = "ok") =>
        LET parsed == ListRepos(text)
        IN  /\ NamedIds(given.stderr) # <<>> => Len(SelectSeq(events, IsReport)) = 1
            /\ result.kind = parsed.kind
            /\ parsed.kind = "raise" => result = parsed
            /\ parsed.kind = "return" => result.val.t = "list"

\* duplicates were reported and the listing then failed to parse
C15_Witness ==
    /\ RepoinfoDone /\ given.out = "ok"
    /\ NamedIds(given.stderr) # <<>>
    /\ result.kind = "raise" /\ result.exc = StopActorExecutionError
    /\ Len(SelectSeq(events, IsReport)) = 1

(***************************************************************************)
(* C12: a query or a one-shot action that ends by raising has issued       *)
(* exactly one command, never slept and never been invoked again;          *)
(* switch_certificate tries each recorded path once and a copy that fails  *)
(* is the last thing it does; scan_rhsm_info issues each of its commands   *)
(* at most once; a retried operation that ends by raising                  *)
(* StopActorExecutionError has issued its command _ATTEMPTS times.         *)
(***************************************************************************)
SingleCommandOps ==
    {"get_attached_skus", "get_enabled_repo_ids", "get_release",
     "get_available_repo_ids", "set_container_mode"}
NotRetriedOps == SingleCommandOps \cup {"switch_certificate", "scan_rhsm_info"}

QueryCommands ==
    {"subscription-manager list --consumed", "yum repoinfo",
     "subscription-manager repos --list-enabled", "subscription-manager release"}

ScanIssuedOnlyQueries ==
    op = "scan_rhsm_info" =>
        \A i \in DOMAIN events :
            /\ events[i].e \notin {"remove", "copy", "invoke", "sleep"}
            /\ events[i].e = "call" => events[i].a \in QueryCommands

ScanStepKeepsFiles ==
    op' = "scan_rhsm_info" => files' = files /\ dirs' = dirs /\ isolated' = isolated

C16_ScanNeverMutates == []ScanIssuedOnlyQueries /\ [][ScanStepKeepsFiles]_vars

\* a scan that made its four queries over directories holding certificates
C16_Witness ==
    /\ op = "scan_rhsm_info" /\ pc = "done" /\ result.kind = "return"
    /\ Count(events, "call") = 4
    /\ files # {}
    /\ result.val.v.existing_product_certificates.v # <<>>

(***************************************************************************)
(* C17: in the wrapper with max_attempts = N >= 1 and a delay, every sleep *)
(* lasts the delay, comes right after the notice of a failed invocation    *)
(* and, once the wrapper went on, right before the next invocation; a      *)
(* wrapper still looping slept once per invocation made, a wrapper that    *)
(* ended slept once per invocation but the last: N - 1 sleeps when all N   *)
(* invocations failed, j - 1 when invocation j returned.                   *)
(***************************************************************************)
C17_SleepBetweenAttempts ==
    (op = "wrapper" /\ sleep # 0 /\ max_attempts >= 1) =>
        /\ \A i \in DOMAIN events :
              events[i].e = "sleep" =>
                  /\ events[i].n = sleep
                  /\ i >= 3 /\ events[i - 1] = Log("info") /\ events[i - 2].e = "invoke"
                  /\ i < Len(events) =>
                        events[i + 1] = Event("invoke", "f", events[i - 2].n + 1)
        /\ pc = "loop" => Count(events, "sleep") = attempts
        /\ pc = "done" =>
              /\ Count(events, "sleep") = Count(events, "invoke") - 1
              /\ events[Len(events)].e # "sleep"
              /\ IsTerminal(result) =>
                    Count(events, "invoke") = max_attempts
                    /\ Count(events, "sleep") = max_attempts - 1
              /\ result.kind = "return" => Count(events, "sleep") = result.n - 1

\* three invocations failed under max_attempts = 3: two sleeps of the delay
C17_Witness ==
    /\ op = "wrapper" /\ pc = "done" /\ sleep = _RETRY_SLEEP /\ max_attempts = 3
    /\ IsTerminal(result)
    /\ Count(events, "invoke") = 3 /\ Count(events, "sleep") = 2

(***************************************************************************)
(* C18: when the body of switch_certificate ran and returned, every        *)
(* target directory that exists holds the new certificate under its base   *)
(* name and was copied to once, whatever the removals did; a target        *)
(* directory that does not exist was not copied to and holds nothing.      *)
(***************************************************************************)
C18_NewCertInExistingDirs ==
    (op = "switch_certificate" /\ pc = "done" /\ result.kind = "return" /\ BodyRan) =>
        \A k \in DOMAIN TargetDirs :
            LET d == TargetDirs[k]
                dst == <<d, newcert[2]>>
                into == {i \in DOMAIN events : events[i].e = "copy" /\ events[i].d[1] = d}
            IN  IF d \in dirs
                THEN /\ dst \in files
                     /\ Cardinality(into) = 1
                     /\ \A i \in into : events[i] = EventD("copy", "ok", dst)
                ELSE into = {} /\ FilesIn(d) = {}

\* a removal failed, one directory exists and has the certificate, the other does not exist
C18_Witness ==
    /\ op = "switch_certificate" /\ pc = "done" /\ result.kind = "return" /\ BodyRan
    /\ \E i \in DOMAIN events : events[i].e = "remove" /\ events[i].a = OSError
    /\ dirs = {TargetDirs[2]}
    /\ <<TargetDirs[2], newcert[2]>> \in files

(***************************************************************************)
(* C19: a wrapper that ended with an exception other than                  *)
(* StopActorExecutionError, raised by invocation i, made exactly i         *)
(* invocations, and that invocation is the last thing it did: nothing was  *)
(* logged, slept or invoked after it.                                      *)
(***************************************************************************)
C19_OtherErrorsNotRetried ==
    (op = "wrapper" /\ pc = "done" /\ result.kind = "raise"
        /\ result.exc # StopActorExecutionError) =>
        /\ result = FResult("other", result.n)
        /\ attempts = result.n
        /\ Count(events, "invoke") = result.n
        /\ events[Len(events)] = Event("invoke", "f", result.n)
        /\ sleep # 0 => Count(events, "sleep") = result.n - 1

\* the third invocation raised something else, under max_attempts = 5
C19_Witness ==
    /\ op = "wrapper" /\ pc = "done" /\ max_attempts = 5 /\ sleep # 0
    /\ result.exc = OtherError /\ result.n = 3
    /\ Count(events, "invoke") = 3 /\ Count(events, "sleep") = 2

(***************************************************************************)
(* C20: for every max_attempts, below 1 included, the wrapper has made as  *)
(* many invocations as it counts attempts, never more than                 *)
(* max(1, max_attempts); while it loops it has made fewer; when it has    *)
(* ended it made at least one and returned or raised; and it ends.         *)
(***************************************************************************)
MostInvocations == IF max_attempts > 1 THEN max_attempts ELSE 1

WrapperBounded ==
    op = "wrapper" =>
        /\ Count(events, "invoke") = attempts
        /\ attempts <= MostInvocations
        /\ pc \in {"loop", "done"}
        /\ pc = "loop" => attempts < MostInvocations /\ result = NoResult
        /\ pc = "done" => attempts >= 1 /\ result.kind \in {"return", "raise"}

C20_WrapperTerminates == []WrapperBounded /\ <>(pc = "done")

\* max_attempts below 1: one invocation, which failed, and the wrapper ended
C20_Witness ==
    /\ op = "wrapper" /\ pc = "done" /\ max_attempts = -1
    /\ IsTerminal(result) /\ Count(events, "invoke") = 1

====
